---- MODULE Spec2Model ----
(***************************************************************************)
(* Products backend: product rows in a relational table, product images in *)
(* an object-storage bucket.  The deployment variants modelled:            *)
(*   "fixed"  four image columns, uploads appended   (src/unnamed/part_000)*)
(*   "list"   images column (JSON list), replace-all (src/unnamed/part_003)*)
(*   "body"   four image columns, URLs sent in body  (src/unnamed/part_001)*)
(*   "callback"  as "body", callback-style queries   (src/server.js:129-335)*)
(*   "order"  as "body", clamped discount, reorder   (src/unnamed/part_002)*)
(*   "single" one uploaded image, create only        (src/server.js:1-127) *)
(* A request is a process; every await of a handler is one step, so that   *)
(* concurrent requests interleave at exactly the points the event loop     *)
(* allows.  The object store and the database are external: an upload, a   *)
(* remove or a query may report an error.  inputs says what the requests   *)
(* of a behaviour differ in: their "files" and image URLs, or their scalar *)
(* "fields" (name, description, price, discount).                          *)
(***************************************************************************)
EXTENDS Integers, Sequences, FiniteSets, TLC

VARIABLES inputs, variant, store, rows, nextId, nextKey, nreq, req

vars == <<inputs, variant, store, rows, nextId, nextKey, nreq, req>>

\* ---------------------------------------------------------------- bounds
NumProcs == 2        \* requests in flight at once
MaxReqs  == 3        \* requests received in one behaviour
MaxId    == 2        \* rows ever inserted
MaxKeys  == 7        \* objects ever uploaded
MaxFiles == 7        \* file parts a client sends in one request
MaxConcFiles == 2    \* file parts of a request that overlaps another one

Procs == 1..NumProcs
Ids   == 1..MaxId

\* ------------------------------------------------------- program constants
MaxCountFixed == 4   \* upload.array("images", 4)
MaxCountList  == 6   \* upload.array("images", 6)
MaxCountSingle == 1  \* upload.single("image")

Variants == {"fixed", "list", "body", "callback", "order", "single"}
\* The variants whose routes sit behind the multer upload middleware.
UploadVariants == {"fixed", "list", "single"}
\* The variants whose clients send the image URLs in a JSON body.
BodyVariants == Variants \ UploadVariants
\* Whether the variant has the routes PUT /products/:id and DELETE
\* /products/:id; "single" has POST /products and GET /products only.
HasUpdateDelete(v) == v # "single"

NULL == <<>>

\* Boolean(s) of a string or undefined: neither undefined (or null) nor "".
\* The empty string is <<"">>, as a field's value and as a URL.
Truthy(s) == s # NULL /\ s # <<"">>

\* x || null
OrNull(x) == IF Truthy(x) THEN x ELSE NULL

\* ------------------------------------------------------------ URLs, keys
\* A string with "/" in it is the sequence of its "/"-separated segments.
SupabaseUrl == <<"https:", "", "proj.supabase.co">>

\* `products/${Date.now()}-${Math.random()...}.${ext}`: a fresh name per upload.
FileName(n) == <<"products", ToString(n)>>

\* supabase.storage.from("products").getPublicUrl(name).data.publicUrl
getPublicUrl(name) ==
    SupabaseUrl \o <<"storage", "v1", "object", "public", "products">> \o name

\* The places where separator sep (segments between two "/") occurs in s.
Matches(s, sep) ==
    { i \in 2..(Len(s) - Len(sep)) : SubSeq(s, i, i + Len(sep) - 1) = sep }

Min(S) == CHOOSE x \in S : \A y \in S : x <= y

\* s.split("/" + sep + "/")[1]; NULL stands for undefined.
SplitSecond(s, sep) ==
    IF Matches(s, sep) = {} THEN NULL
    ELSE LET i == Min(Matches(s, sep))
             r == SubSeq(s, i + Len(sep), Len(s))
         IN IF Matches(r, sep) = {} THEN r
            ELSE SubSeq(r, 1, Min(Matches(r, sep)) - 1)

\* deleteImage(url): the key handed to remove(), NULL when it returns early
\* (if (!url) return; if (!part) return).
deleteImageKey(url) ==
    IF ~Truthy(url) THEN NULL
    ELSE LET part == SplitSecond(url, <<"products">>)
         IN IF ~Truthy(part) THEN NULL ELSE <<"products">> \o part

\* url.split("/storage/v1/object/public/products/")[1]
deletePath(url) ==
    SplitSecond(url, <<"storage", "v1", "object", "public", "products">>)

\* The key a delete handler asks the store to remove for url, NULL when it
\* asks for nothing ("list": if (path) ...).
RemoveKey(v, url) ==
    IF v = "list" THEN OrNull(deletePath(url)) ELSE deleteImageKey(url)

\* ------------------------------------------------------------------ rows
At(s, i) == IF i <= Len(s) THEN s[i] ELSE NULL

\* The four columns filled from the last four URLs instead of the first four.
SlotRowLastFour(urls) ==
    LET n == IF Len(urls) > 4 THEN Len(urls) - 4 ELSE 0
    IN [image_main   |-> OrNull(At(urls, n + 1)),
        image_thumb1 |-> OrNull(At(urls, n + 2)),
        image_thumb2 |-> OrNull(At(urls, n + 3)),
        image_thumb3 |-> OrNull(At(urls, n + 4)),
        images       |-> NULL]

\* urls[0] || null, urls[1] || null, urls[2] || null, urls[3] || null
SlotRow(urls) ==
    [image_main   |-> OrNull(At(urls, 1)),
     image_thumb1 |-> OrNull(At(urls, 2)),
     image_thumb2 |-> OrNull(At(urls, 3)),
     image_thumb3 |-> OrNull(At(urls, 4)),
     images       |-> NULL]

\* image_main = uploadedUrls[0], images = JSON.stringify(uploadedUrls)
ListRow(urls) ==
    [image_main   |-> At(urls, 1), image_thumb1 |-> NULL,
     image_thumb2 |-> NULL,        image_thumb3 |-> NULL,
     images       |-> urls]

Slots(row) ==
    <<row.image_main, row.image_thumb1, row.image_thumb2, row.image_thumb3>>

\* Boolean(u): filter(Boolean) drops null and the empty string.
NotNull(u) == Truthy(u)

\* [image_main, image_thumb1, image_thumb2, image_thumb3].filter(Boolean)
FilterBoolean(row) == SelectSeq(Slots(row), NotNull)

\* The image set a row persists.
ImageSet(v, row) == IF v = "list" THEN row.images ELSE FilterBoolean(row)

Range(s) == { s[i] : i \in DOMAIN s }

\* --------------------------------------------------------------- scalars
\* A field of req.body is <<v>> when the body has it and NULL when it does
\* not (undefined); a column of a row is <<v>> or the SQL NULL.
\* const { x = d } = req.body: d when the body has no x.
Default(x, d) == IF x = NULL THEN <<d>> ELSE x

\* Number(x) || 0: Number(undefined) is NaN, which is falsy.
NumberOrZero(x) == IF x = NULL THEN <<0>> ELSE x

MathMax(a, b) == IF a >= b THEN a ELSE b

MathMin(a, b) == IF a <= b THEN a ELSE b

\* Math.max(0, Math.min(100, Number(discount) || 0))
safeDiscount(discount) ==
    <<MathMax(0, MathMin(100, NumberOrZero(discount)[1]))>>

\* The name, description, price and discount a handler binds to its INSERT
\* or UPDATE, from the body b.  An undefined value is bound as NULL.
Scalars(v, kind, b) ==
    IF v \in {"fixed", "single"} \/ (v = "list" /\ kind = "create")
    THEN [name        |-> b.name,
          description |-> Default(b.description, ""),
          price       |-> Default(b.price, 0),
          discount    |-> Default(b.discount, 0)]
    ELSE IF v = "list"
    THEN [name        |-> b.name,     description |-> b.description,
          price       |-> b.price,    discount    |-> b.discount]
    ELSE [name        |-> b.name,
          description |-> b.description,
          price       |-> NumberOrZero(b.price),
          discount    |-> IF v = "order" THEN safeDiscount(b.discount)
                          ELSE NumberOrZero(b.discount)]

\* PUT of "list" binds Number(price) and Number(discount) without a default:
\* Number(undefined) is NaN, written into the statement as the word NaN, which
\* the database rejects.
BindsNaN(v, kind, b) ==
    v = "list" /\ kind = "update" /\ (b.price = NULL \/ b.discount = NULL)

\* The row an INSERT creates: the image columns, the scalar columns, and
\* display_order at the column's default.
NewRow(img, sc) == img @@ sc @@ [display_order |-> 0]

\* The row an UPDATE leaves: the columns it sets, the others as they were.
SetColumns(old, set) == set @@ old

\* ------------------------------------------------------------- requests
\* A body without name, description, price and discount.
NoFields ==
    [name |-> NULL, description |-> NULL, price |-> NULL, discount |-> NULL]

\* A body without orderedIds.  tag is what orderedIds is: "missing", a
\* "string" or an "array", whose entries are ids.
NoOrder == [tag |-> "missing", ids |-> <<>>]

IdleReq ==
    [pc |-> "idle", kind |-> "none", id |-> 0, fields |-> NoFields,
     nfiles |-> 0, left |-> 0, images |-> <<>>, todo |-> <<>>, body |-> <<>>,
     ordered |-> NoOrder, resp |-> 0,
     mine |-> {}, with |-> {}, found |-> FALSE, rmfail |-> FALSE,
     wrote |-> FALSE, old |-> <<>>, ups |-> <<>>, absent |-> FALSE,
     dberr |-> FALSE, raw |-> FALSE, before |-> <<>>,
     over |-> FALSE]

Active(p) == req[p].pc \notin {"idle", "done"}

RECURSIVE SumLeft(_)
SumLeft(S) ==
    IF S = {} THEN 0
    ELSE LET p == CHOOSE q \in S : TRUE
         IN req[p].left + SumLeft(S \ {p})

\* The limit with the "list" variant's maxCount one too high.
UploadLimitOneMore(v) ==
    IF v = "list" THEN MaxCountList + 1
    ELSE IF v = "single" THEN MaxCountSingle ELSE MaxCountFixed

\* upload.array("images", maxCount); upload.single("image")
UploadLimit(v) ==
    IF v = "list" THEN MaxCountList
    ELSE IF v = "single" THEN MaxCountSingle ELSE MaxCountFixed

\* res.status(status).json(...): the request is over; what it read, uploaded
\* and answered stays on record.
Respond(p, status) ==
    [req[p] EXCEPT !.pc = "done", !.resp = status,
                   !.nfiles = 0, !.left = 0, !.todo = <<>>, !.body = <<>>]

\* Everything but the inputs the requests of the behaviour are drawn from.
Start ==
    /\ variant \in Variants
    /\ store = {}
    /\ rows = << >>
    /\ nextId = 1
    /\ nextKey = 1
    /\ nreq = 0
    /\ req = [p \in Procs |-> IdleReq]

\* The requests differ in their files and image URLs.
Init == inputs = "files" /\ Start

\* The requests differ in their scalar fields.
FieldInit == inputs = "fields" /\ Start

\* --------------------------------------------------------------- inputs
\* URLs a client of the "body" variant sends in the JSON body.
ClientUrl == <<"https:", "", "cdn.example", "a.jpg">>

\* req.body's image_main, image_thumb1, image_thumb2, image_thumb3.
Bodies ==
    { <<NULL, NULL, NULL, NULL>>,
      <<ClientUrl, NULL, NULL, NULL>>,
      <<NULL, ClientUrl, NULL, NULL>>,
      <<ClientUrl, ClientUrl, NULL, NULL>>,
      << <<"">>, ClientUrl, NULL, NULL>>,
      <<ClientUrl, ClientUrl, ClientUrl, ClientUrl>> }

\* The image bodies the requests are drawn from.
ImageBodies(inp) ==
    IF inp = "files" THEN Bodies ELSE { <<ClientUrl, NULL, NULL, NULL>> }

\* The numbers of file parts the requests are drawn from.
FileCounts(inp) == IF inp = "files" THEN 0..MaxFiles ELSE 0..1

\* req.body's name, description, price and discount: all four given.
Plain ==
    [name  |-> <<"Widget">>, description |-> <<"text">>,
     price |-> <<10>>,       discount    |-> <<50>>]

\* Bodies that differ in the scalar fields: a discount above 100; no field
\* at all; every field given as empty or zero; only name and a discount
\* below 0.
FieldBodies ==
    { [Plain EXCEPT !.discount = <<150>>],
      NoFields,
      [name  |-> <<"">>, description |-> <<"">>,
       price |-> <<0>>,  discount    |-> <<0>>],
      [name  |-> <<"Gadget">>, description |-> NULL,
       price |-> NULL,         discount    |-> <<0 - 5>>] }

\* The scalar bodies the creates of the upload variants are drawn from.
CreateFields(inp) ==
    IF inp = "files" THEN {Plain, [Plain EXCEPT !.name = NULL]}
    ELSE FieldBodies

\* The scalar bodies the other requests are drawn from.
OtherFields(inp) == IF inp = "files" THEN {Plain} ELSE FieldBodies

\* req.body.orderedIds of POST /products/reorder.
OrderBodies ==
    { NoOrder, [tag |-> "string", ids |-> <<>>] }
    \cup { [tag |-> "array", ids |-> s] :
              s \in UNION { [1..n -> Ids] : n \in 0..MaxId } }

ActiveCreates == { q \in Procs : Active(q) /\ req[q].kind = "create" }

\* A request takes the first free slot.
FreeSlot(p) == ~Active(p) /\ \A q \in Procs : q < p => Active(q)

\* Request r arrives in slot p: the requests in flight overlap it, and the
\* records of the requests answered before it are dropped.
Arrive(p, r) ==
    [q \in Procs |->
        IF q = p THEN [r EXCEPT !.with = IF r.pc = "done" THEN {}
                                         ELSE { x \in Procs \ {p} : Active(x) },
                                !.absent = /\ r.kind \in {"update", "delete"}
                                           /\ r.id \notin DOMAIN rows]
        ELSE IF ~Active(q) THEN IdleReq
        ELSE IF r.pc # "done" THEN [req[q] EXCEPT !.with = @ \cup {p}]
        ELSE req[q]]

\* The multer middleware in front of a multipart route: more file parts than
\* maxCount is a MulterError, answered 500 by the default error handler; the
\* route handler does not run.
Multer(kind, id, fields, nfiles) ==
    IF nfiles > UploadLimit(variant)
    THEN [IdleReq EXCEPT !.pc = "done", !.kind = kind, !.id = id,
                         !.fields = fields, !.resp = 500, !.over = TRUE]
    ELSE [IdleReq EXCEPT !.pc = "start", !.kind = kind, !.id = id,
                         !.fields = fields, !.nfiles = nfiles,
                         !.left = nfiles]

KeysLeft == MaxKeys - (nextKey - 1) - SumLeft(Procs)

\* Requests overlap only when each carries at most MaxConcFiles file parts.
MayArrive(p, nfiles) ==
    \A q \in Procs \ {p} :
        Active(q) => nfiles <= MaxConcFiles /\ req[q].nfiles <= MaxConcFiles

\* A multipart request of an upload variant arrives.
ReceiveUpload(p) ==
    /\ variant \in UploadVariants
    /\ FreeSlot(p)
    /\ nreq < MaxReqs
    /\ \E nfiles \in FileCounts(inputs) :
          /\ nfiles > UploadLimit(variant) \/ nfiles <= KeysLeft
          /\ nfiles > UploadLimit(variant) \/ MayArrive(p, nfiles)
          /\ \/ \E b \in CreateFields(inputs) :
                   /\ (nextId - 1) + Cardinality(ActiveCreates) < MaxId
                   /\ req' = Arrive(p, Multer("create", 0, b, nfiles))
             \/ /\ HasUpdateDelete(variant)
                /\ \E id \in Ids, b \in OtherFields(inputs) :
                      req' = Arrive(p, Multer("update", id, b, nfiles))
    /\ nreq' = nreq + 1
    /\ UNCHANGED <<inputs, variant, store, rows, nextId, nextKey>>

\* A request without file parts arrives: DELETE in the upload variants, any
\* request in the variants that take a JSON body.
ReceivePlain(p) ==
    /\ FreeSlot(p)
    /\ nreq < MaxReqs
    /\ MayArrive(p, 0)
    /\ \/ /\ HasUpdateDelete(variant)
          /\ \E id \in Ids :
                req' = Arrive(p, [IdleReq EXCEPT !.pc = "start",
                                                 !.kind = "delete", !.id = id])
       \/ /\ variant \in BodyVariants
          /\ \E b \in ImageBodies(inputs), f \in OtherFields(inputs) :
                \/ /\ (nextId - 1) + Cardinality(ActiveCreates) < MaxId
                   /\ req' = Arrive(p, [IdleReq EXCEPT !.pc = "start",
                                           !.kind = "create", !.body = b,
                                           !.fields = f])
                \/ \E id \in Ids :
                      req' = Arrive(p, [IdleReq EXCEPT !.pc = "start",
                                           !.kind = "update", !.id = id,
                                           !.body = b, !.fields = f])
       \/ /\ variant = "order"
          /\ \E o \in OrderBodies :
                req' = Arrive(p, [IdleReq EXCEPT !.pc = "start",
                                     !.kind = "reorder", !.ordered = o])
    /\ nreq' = nreq + 1
    /\ UNCHANGED <<inputs, variant, store, rows, nextId, nextKey>>

\* ---------------------------------------------------------------- create
\* POST /products up to the upload loop: if (!name || !req.files.length) 400
\* ("single": if (!name || !req.file)).
CreateStart(p) ==
    /\ variant \in UploadVariants
    /\ req[p].pc = "start" /\ req[p].kind = "create"
    /\ req' = [req EXCEPT ![p] =
                 IF ~Truthy(req[p].fields.name) \/ req[p].nfiles = 0
                 THEN Respond(p, 400)
                 ELSE [@ EXCEPT !.pc = "upload"]]
    /\ UNCHANGED <<inputs, variant, store, rows, nextId, nextKey, nreq>>

\* One upload of the loop succeeds: the object is stored, its public URL kept.
UploadOk(p) ==
    /\ req[p].pc = "upload"
    /\ LET key == FileName(nextKey)
       IN /\ store' = store \cup {key}
          /\ req' = [req EXCEPT ![p] =
                       [@ EXCEPT !.images = Append(@, getPublicUrl(key)),
                                 !.ups = Append(@, getPublicUrl(key)),
                                 !.mine = @ \cup {key},
                                 !.left = @ - 1,
                                 !.pc = IF req[p].left = 1 THEN "write"
                                        ELSE "upload"]]
    /\ nextKey' = nextKey + 1
    /\ UNCHANGED <<inputs, variant, rows, nextId, nreq>>

\* Whether the handler looks at the error an upload reports.
ChecksUploadError(v, kind) == ~(v = "list" /\ kind = "update")

\* One upload of the loop reports an error and stores nothing.  uploadImage
\* and POST throw it (caught: 500); PUT of the "list" variant never looks at
\* it and keeps the public URL of the name it tried.
UploadError(p) ==
    /\ req[p].pc = "upload"
    /\ IF ChecksUploadError(variant, req[p].kind)
       THEN /\ req' = [req EXCEPT ![p] = Respond(p, 500)]
            /\ nextKey' = nextKey
       ELSE /\ req' = [req EXCEPT ![p] =
                        [@ EXCEPT !.images =
                                     Append(@, getPublicUrl(FileName(nextKey))),
                                  !.left = @ - 1,
                                  !.pc = IF req[p].left = 1 THEN "write"
                                         ELSE "upload"]]
            /\ nextKey' = nextKey + 1
    /\ UNCHANGED <<inputs, variant, store, rows, nextId, nreq>>

\* The row a create or an update writes from the URLs it holds.
RowOf(v, urls) == IF v = "list" THEN ListRow(urls) ELSE SlotRow(urls)

\* INSERT INTO products ... ; res.json({success: true, id})
InsertRow(p) ==
    /\ variant \in UploadVariants
    /\ req[p].pc = "write" /\ req[p].kind = "create"
    /\ rows' = (nextId :> NewRow(RowOf(variant, req[p].images),
                                 Scalars(variant, "create", req[p].fields)))
                @@ rows
    /\ nextId' = nextId + 1
    /\ req' = [req EXCEPT ![p] =
                 [Respond(p, 200) EXCEPT !.id = nextId, !.wrote = TRUE]]
    /\ UNCHANGED <<inputs, variant, store, nextKey, nreq>>

\* ---------------------------------------------------------------- update
\* PUT of "fixed": SELECT * FROM products WHERE id = ?; 404 without a row;
\* images = the row's non-null slots.
UpdateSelect(p) ==
    /\ variant = "fixed"
    /\ req[p].pc = "start" /\ req[p].kind = "update"
    /\ req' = [req EXCEPT ![p] =
                 IF req[p].id \notin DOMAIN rows
                 THEN Respond(p, 404)
                 ELSE [@ EXCEPT !.images = FilterBoolean(rows[req[p].id]),
                                !.found = TRUE,
                                !.pc = IF req[p].nfiles > 0 THEN "upload"
                                       ELSE "write"]]
    /\ UNCHANGED <<inputs, variant, store, rows, nextId, nextKey, nreq>>

\* PUT of "list": let images = []; no row is read.
UpdateStart(p) ==
    /\ variant = "list"
    /\ req[p].pc = "start" /\ req[p].kind = "update"
    /\ req' = [req EXCEPT ![p] =
                 [@ EXCEPT !.images = <<>>,
                           !.pc = IF req[p].nfiles > 0 THEN "upload"
                                  ELSE "write"]]
    /\ UNCHANGED <<inputs, variant, store, rows, nextId, nextKey, nreq>>

\* The row UPDATE ... WHERE id = ? leaves, given the row it finds.  "list":
\* image_main = IFNULL(?, image_main), images = IFNULL(?, images).
UpdatedRow(v, old, urls) ==
    IF v = "list" /\ urls = <<>> THEN old ELSE RowOf(v, urls)

\* UPDATE products SET ... WHERE id = ?; res.json({success: true}).  A missing
\* row makes the statement affect nothing; a statement with NaN in it fails.
UpdateRow(p) ==
    /\ variant \in UploadVariants
    /\ req[p].pc = "write" /\ req[p].kind = "update"
    /\ LET id == req[p].id
           sc == Scalars(variant, "update", req[p].fields)
       IN IF BindsNaN(variant, "update", req[p].fields)
          THEN /\ rows' = rows
               /\ req' = [req EXCEPT ![p] =
                            [Respond(p, 500) EXCEPT !.dberr = TRUE]]
          ELSE /\ rows' = IF id \in DOMAIN rows
                          THEN [rows EXCEPT ![id] =
                                  SetColumns(rows[id],
                                     sc @@ UpdatedRow(variant, rows[id],
                                                      req[p].images))]
                          ELSE rows
               /\ req' = [req EXCEPT ![p] =
                            [Respond(p, 200) EXCEPT
                                !.wrote = id \in DOMAIN rows,
                                !.before = rows,
                                !.old = IF id \in DOMAIN rows
                                        THEN ImageSet(variant, rows[id])
                                        ELSE <<>>]]
    /\ UNCHANGED <<inputs, variant, store, nextId, nextKey, nreq>>

\* ---------------------------------------------------------------- delete
\* DELETE: the SELECT.  "fixed" goes on without a row; "list" answers 404.
DeleteSelect(p) ==
    /\ variant \in UploadVariants
    /\ req[p].pc = "start" /\ req[p].kind = "delete"
    /\ LET id == req[p].id
           urls == IF variant = "list" THEN rows[id].images
                   ELSE Slots(rows[id])
       IN req' = [req EXCEPT ![p] =
                   IF id \in DOMAIN rows
                   THEN [@ EXCEPT !.found = TRUE,
                                  !.images = ImageSet(variant, rows[id]),
                                  !.todo = urls,
                                  !.pc = IF urls = <<>> THEN "delrow"
                                         ELSE "remove"]
                   ELSE IF variant = "list" THEN Respond(p, 404)
                   ELSE [@ EXCEPT !.pc = "delrow"]]
    /\ UNCHANGED <<inputs, variant, store, rows, nextId, nextKey, nreq>>

\* The request after the next URL of its delete loop is done with.
Removed(p, failed) ==
    [req[p] EXCEPT !.todo = Tail(@),
                   !.rmfail = @ \/ failed,
                   !.pc = IF Len(req[p].todo) = 1 THEN "delrow" ELSE "remove"]

\* The next URL yields no key (a null slot, or a URL the split finds nothing
\* in): no call to the store.
RemoveSkip(p) ==
    /\ req[p].pc = "remove"
    /\ RemoveKey(variant, Head(req[p].todo)) = NULL
    /\ req' = [req EXCEPT ![p] = Removed(p, FALSE)]
    /\ UNCHANGED <<inputs, variant, store, rows, nextId, nextKey, nreq>>

\* supabase.storage.from("products").remove([key]) succeeds: the object under
\* that key, if there is one, is gone.
RemoveOk(p) ==
    /\ req[p].pc = "remove"
    /\ RemoveKey(variant, Head(req[p].todo)) # NULL
    /\ store' = store \ {RemoveKey(variant, Head(req[p].todo))}
    /\ req' = [req EXCEPT ![p] = Removed(p, FALSE)]
    /\ UNCHANGED <<inputs, variant, rows, nextId, nextKey, nreq>>

\* remove() reports an error in its result, which no handler reads: the
\* object stays and the loop goes on.
RemoveError(p) ==
    /\ req[p].pc = "remove"
    /\ RemoveKey(variant, Head(req[p].todo)) # NULL
    /\ req' = [req EXCEPT ![p] = Removed(p, TRUE)]
    /\ UNCHANGED <<inputs, variant, store, rows, nextId, nextKey, nreq>>

Without(f, id) == [i \in DOMAIN f \ {id} |-> f[i]]

\* DELETE FROM products WHERE id = ?; res.json({success: true})
DeleteRow(p) ==
    /\ variant \in UploadVariants
    /\ req[p].pc = "delrow"
    /\ rows' = Without(rows, req[p].id)
    /\ req' = [req EXCEPT ![p] =
                 [Respond(p, 200) EXCEPT !.wrote = req[p].id \in DOMAIN rows]]
    /\ UNCHANGED <<inputs, variant, store, nextId, nextKey, nreq>>

\* ------------------------------------------------------- "body" variant
\* image_main || null, image_thumb1 || null, ...: the body's URLs as sent.
BodyRow(b) == SlotRow(b)

\* POST, PUT and DELETE of the variants that take a JSON body: one query,
\* then the response.
BodyQuery(p) ==
    /\ variant \in BodyVariants
    /\ req[p].pc = "start"
    /\ LET id == req[p].id
           sc == Scalars(variant, req[p].kind, req[p].fields)
       IN \/ /\ req[p].kind = "create"
             /\ rows' = (nextId :> NewRow(BodyRow(req[p].body), sc)) @@ rows
             /\ nextId' = nextId + 1
             /\ req' = [req EXCEPT ![p] =
                          [Respond(p, 200) EXCEPT !.id = nextId,
                                                  !.wrote = TRUE]]
          \/ /\ req[p].kind = "update"
             /\ rows' = IF id \in DOMAIN rows
                        THEN [rows EXCEPT ![id] =
                                SetColumns(rows[id],
                                           sc @@ BodyRow(req[p].body))]
                        ELSE rows
             /\ nextId' = nextId
             /\ req' = [req EXCEPT ![p] =
                          [Respond(p, 200) EXCEPT !.wrote = id \in DOMAIN rows,
                                                  !.before = rows]]
          \/ /\ req[p].kind = "delete"
             /\ rows' = Without(rows, id)
             /\ nextId' = nextId
             /\ req' = [req EXCEPT ![p] =
                          [Respond(p, 200) EXCEPT !.wrote = id \in DOMAIN rows]]
    /\ UNCHANGED <<inputs, variant, store, nextKey, nreq>>

\* --------------------------------------------------------------- reorder
\* !orderedIds || !Array.isArray(orderedIds) || orderedIds.length === 0
InvalidOrder(o) == o.tag # "array" \/ o.ids = <<>>

\* The position counted from 1 instead of from 0.
CaseIndexFromOne(ids, id) == Min({ i \in DOMAIN ids : ids[i] = id })

\* CASE id WHEN ids[0] THEN 0 WHEN ids[1] THEN 1 ... END: the index of the
\* first WHEN that names id.
CaseIndex(ids, id) == Min({ i \in DOMAIN ids : ids[i] = id }) - 1

\* UPDATE products SET display_order = CASE id ... END WHERE id IN (ids)
Reordered(r, ids) ==
    [id \in DOMAIN r |->
        IF id \in Range(ids)
        THEN [r[id] EXCEPT !.display_order = CaseIndex(ids, id)]
        ELSE r[id]]

\* POST /products/reorder: 400 for an invalid orderedIds, else the one UPDATE
\* and res.json({success: true}).
Reorder(p) ==
    /\ variant = "order"
    /\ req[p].pc = "start" /\ req[p].kind = "reorder"
    /\ IF InvalidOrder(req[p].ordered)
       THEN /\ rows' = rows
            /\ req' = [req EXCEPT ![p] =
                         [Respond(p, 400) EXCEPT !.before = rows]]
       ELSE /\ rows' = Reordered(rows, req[p].ordered.ids)
            /\ req' = [req EXCEPT ![p] =
                         [Respond(p, 200) EXCEPT !.before = rows,
                                                 !.wrote = TRUE]]
    /\ UNCHANGED <<inputs, variant, store, nextId, nextKey, nreq>>

\* ORDER BY display_order ASC, id DESC: row a comes before row b.
OrderBy(r, a, b) ==
    \/ r[a].display_order < r[b].display_order
    \/ r[a].display_order = r[b].display_order /\ a > b

\* GET /products of "order": the ids of the rows in the order of the answer.
Listing(r) ==
    CHOOSE s \in [1..Cardinality(DOMAIN r) -> DOMAIN r] :
        \A i, j \in DOMAIN s : i < j => OrderBy(r, s[i], s[j])

\* --------------------------------------------------------------- failure
\* Whether the request's next step is a query on the pool.
AtQuery(p) ==
    \/ req[p].pc \in {"write", "delrow"}
    \/ /\ req[p].pc = "start"
       /\ \/ /\ variant \in BodyVariants
             /\ req[p].kind = "reorder" => ~InvalidOrder(req[p].ordered)
          \/ req[p].kind = "delete"
          \/ variant = "fixed" /\ req[p].kind = "update"

\* Whether the 500 answer to a failed query carries the driver's error
\* object: if (err) return res.status(500).json(err).
SendsDriverError(v) == v = "callback"

\* The query fails: the handler's catch (or its callback's if (err)) answers
\* 500.
DbFail(p) ==
    /\ AtQuery(p)
    /\ req' = [req EXCEPT ![p] =
                 [Respond(p, 500) EXCEPT !.dberr = TRUE,
                                         !.raw = SendsDriverError(variant)]]
    /\ UNCHANGED <<inputs, variant, store, rows, nextId, nextKey, nreq>>

\* Every request has been answered.
Quiet == \A p \in Procs : ~Active(p)

\* A step of a request in flight.
Step(p) ==
    \/ CreateStart(p)
    \/ UploadOk(p)
    \/ UploadError(p)
    \/ InsertRow(p)
    \/ UpdateSelect(p)
    \/ UpdateStart(p)
    \/ UpdateRow(p)
    \/ DeleteSelect(p)
    \/ RemoveSkip(p)
    \/ RemoveOk(p)
    \/ RemoveError(p)
    \/ DeleteRow(p)
    \/ BodyQuery(p)
    \/ Reorder(p)
    \/ DbFail(p)

Next ==
    \E p \in Procs :
        \/ ReceiveUpload(p)
        \/ ReceivePlain(p)
        \/ Step(p)

Spec == Init /\ [][Next]_vars

\* Requests one after the other: a request arrives only when every earlier
\* one has been answered.
SeqNext ==
    \E p \in Procs :
        \/ Quiet /\ ReceiveUpload(p)
        \/ Quiet /\ ReceivePlain(p)
        \/ Step(p)

SeqSpec == Init /\ [][SeqNext]_vars

\* Requests one after the other that differ in their scalar fields.
FieldSpec == FieldInit /\ [][SeqNext]_vars

\* ================================================================ claims
\* The URLs row holds.
Refs(row) == Range(ImageSet(variant, row))

\* url is the public URL of an object the store holds.
Present(url) == \E k \in store : getPublicUrl(k) = url

\* Some row refers to the object under key k.
Referenced(k) == \E id \in DOMAIN rows : getPublicUrl(k) \in Refs(rows[id])

Done(p, kind, status) ==
    req[p].pc = "done" /\ req[p].kind = kind /\ req[p].resp = status

\* C1: in the upload variants, once every request has been answered, every
\* URL of every row's image set is the URL of an object the store holds.
C1_NoDanglingUrl ==
    (variant \in UploadVariants /\ Quiet) =>
        \A id \in DOMAIN rows : \A u \in Refs(rows[id]) : Present(u)

\* C2: a create or an update answered with an error has left none of the
\* objects it uploaded in the store.
C2_FailedRequestRolledBack ==
    \A p \in Procs :
        (req[p].pc = "done" /\ req[p].kind \in {"create", "update"}
           /\ req[p].resp = 500)
        => req[p].mine \cap store = {}

\* C3: a delete answered with success that found the row, and none of whose
\* store removals reported an error, has removed the row and the object of
\* every URL of the row's image set.
C3_DeleteRemovesRowAndObjects ==
    \A p \in Procs :
        (/\ variant \in UploadVariants /\ Done(p, "delete", 200)
         /\ req[p].found /\ ~req[p].rmfail)
        => /\ req[p].id \notin DOMAIN rows
           /\ \A u \in Range(req[p].images) : ~Present(u)

\* C4: a delete one of whose store removals failed does not delete the row
\* and does not answer with success.
C4_DeleteAbortsOnRemoveError ==
    \A p \in Procs :
        (req[p].pc = "done" /\ req[p].kind = "delete" /\ req[p].rmfail)
        => req[p].resp # 200 /\ ~req[p].wrote

\* C5: once an update with uploaded files and a delete that ran concurrently
\* on the same existing product have both answered (the delete's removals
\* all succeeding), every object the update uploaded that is still in the
\* store is referenced by a row.
C5_NoOrphanAfterUpdateDeleteRace ==
    \A p, q \in Procs :
        (/\ Done(p, "update", 200) /\ req[p].mine # {}
         /\ Done(q, "delete", 200) /\ req[q].found /\ ~req[q].rmfail
         /\ req[p].id = req[q].id
         /\ q \in req[p].with)
        => \A k \in req[p].mine \cap store : Referenced(k)

\* C6: when two appending updates with uploaded files that ran concurrently
\* on the same product have both answered with success, the row's image
\* set holds the images of both, or is full.
C6_ConcurrentAppendsBothKept ==
    \A p, q \in Procs :
        (/\ variant = "fixed" /\ p # q
         /\ Done(p, "update", 200) /\ Done(q, "update", 200)
         /\ req[p].mine # {} /\ req[q].mine # {}
         /\ req[p].id = req[q].id /\ req[p].id \in DOMAIN rows
         /\ q \in req[p].with)
        => \/ Len(ImageSet(variant, rows[req[p].id])) = 4
           \/ \A k \in req[p].mine \cup req[q].mine :
                 getPublicUrl(k) \in Refs(rows[req[p].id])

\* C7: no row's image set holds more URLs than the variant's capacity, 6 for
\* the images list and 4 for the image columns.
C7_WithinCapacity ==
    \A id \in DOMAIN rows :
        Len(ImageSet(variant, rows[id])) <= IF variant = "list" THEN 6 ELSE 4

\* A create of the "list" variant has stored a full image list.
C7_Witness ==
    /\ variant = "list"
    /\ \E p \in Procs :
          /\ Done(p, "create", 200)
          /\ req[p].id \in DOMAIN rows
          /\ Len(ImageSet(variant, rows[req[p].id])) = 6

\* C8: in every row image_main is the first entry of the row's image set, and
\* null when the set is empty.
C8_ImageMainIsFirst ==
    \A id \in DOMAIN rows :
        LET s == ImageSet(variant, rows[id])
        IN rows[id].image_main = IF s = <<>> THEN NULL ELSE s[1]

\* C9: after an appending update that ran alone has answered with success,
\* every object it uploaded is referenced by the row or gone from the store.
C9_OverflowUploadsNotOrphaned ==
    \A p \in Procs :
        (variant = "fixed" /\ Done(p, "update", 200) /\ req[p].with = {})
        => \A k \in req[p].mine \cap store :
              /\ req[p].id \in DOMAIN rows
              /\ getPublicUrl(k) \in Refs(rows[req[p].id])

\* C10: after a replace-all update with at least one file, all of whose
\* uploads succeeded and which ran alone, has answered with success, the row's
\* image list is the uploaded URLs and no object of the previous list is left
\* in the store.
C10_ReplaceAllDeletesOld ==
    \A p \in Procs :
        (/\ variant = "list" /\ Done(p, "update", 200)
         /\ req[p].images # <<>>
         /\ Cardinality(req[p].mine) = Len(req[p].images)
         /\ req[p].wrote /\ req[p].with = {})
        => /\ req[p].id \in DOMAIN rows
           /\ rows[req[p].id].images = req[p].images
           /\ \A u \in Range(req[p].old) : ~Present(u)

\* C11: an update or a delete of an id that has no row does not answer with
\* success, uploads nothing and writes no row.
C11_MissingIdRejected ==
    \A p \in Procs :
        (variant \in UploadVariants /\ req[p].pc = "done" /\ req[p].absent)
        => req[p].resp # 200 /\ req[p].mine = {} /\ ~req[p].wrote

FirstN(s, n) == SubSeq(s, 1, IF Len(s) < n THEN Len(s) ELSE n)

\* C17: after a successful appending update the row's image sequence is the
\* previous one followed by the uploaded URLs in upload order, cut to the
\* first 4; without files it is the previous one.
C17_AppendKeepsOrder ==
    \A p \in Procs :
        (variant = "fixed" /\ Done(p, "update", 200) /\ req[p].wrote)
        => ImageSet(variant, rows[req[p].id])
              = FirstN(req[p].old \o req[p].ups, 4)

\* An appending update has written a row whose previous images and uploads
\* together did not fit the four columns.
C17_Witness ==
    /\ variant = "fixed"
    /\ \E p \in Procs :
          /\ Done(p, "update", 200) /\ req[p].wrote
          /\ Len(req[p].old) >= 1 /\ Len(req[p].ups) >= 2
          /\ Len(req[p].old) + Len(req[p].ups) > 4

\* C18: in the variants that delete uploaded objects, the key a delete
\* derives from the public URL of an uploaded object is the key the object
\* was uploaded under.
C18_KeyRoundTrip ==
    HasUpdateDelete(variant) =>
        \A p \in Procs : \A k \in req[p].mine :
            RemoveKey(variant, getPublicUrl(k)) = k

\* C15: a request during which a database operation failed is answered with
\* status 500 and without the driver's error object.
C15_GenericErrorResponse ==
    \A p \in Procs :
        req[p].dberr => req[p].pc = "done" /\ req[p].resp = 500 /\ ~req[p].raw

\* The place of x in sequence s.
Pos(s, x) == CHOOSE i \in DOMAIN s : s[i] = x

Distinct(s) == \A i, j \in DOMAIN s : s[i] = s[j] => i = j

\* C16: POST /products/reorder whose orderedIds is missing, not an array or
\* an empty array is answered 400 and leaves every display_order as it was;
\* with a non-empty array of distinct ids it is answered 200, every existing
\* listed product's display_order is the index (from 0) of its id in the
\* array, every other product's display_order is as it was, and GET
\* /products lists the listed products in the array's relative order.
C16_ReorderSetsOrder ==
    \A p \in Procs :
        (/\ variant = "order" /\ req[p].pc = "done"
         /\ req[p].kind = "reorder" /\ ~req[p].dberr)
        => LET o == req[p].ordered
               was == req[p].before
           IN /\ (o.tag # "array" \/ Len(o.ids) = 0) =>
                    /\ req[p].resp = 400
                    /\ DOMAIN rows = DOMAIN was
                    /\ \A id \in DOMAIN rows :
                          rows[id].display_order = was[id].display_order
              /\ (o.tag = "array" /\ Len(o.ids) > 0 /\ Distinct(o.ids)) =>
                    /\ req[p].resp = 200
                    /\ DOMAIN rows = DOMAIN was
                    /\ \A id \in DOMAIN rows :
                          rows[id].display_order =
                             IF id \in Range(o.ids) THEN Pos(o.ids, id) - 1
                             ELSE was[id].display_order
                    /\ \A i, j \in DOMAIN o.ids :
                          (/\ i < j
                           /\ o.ids[i] \in DOMAIN rows
                           /\ o.ids[j] \in DOMAIN rows)
                          => Pos(Listing(rows), o.ids[i])
                                < Pos(Listing(rows), o.ids[j])

\* A reorder has put two existing products in the order opposite to the
\* one GET /products gave before it.
C16_Witness ==
    /\ variant = "order"
    /\ \E p \in Procs :
          /\ Done(p, "reorder", 200)
          /\ Len(req[p].ordered.ids) >= 2
          /\ Distinct(req[p].ordered.ids)
          /\ Range(req[p].ordered.ids) \subseteq DOMAIN rows
          /\ Listing(rows) # Listing(req[p].before)

\* C12: in the "fixed", "list" and "order" variants a create request within
\* the upload middleware's file limit whose name is missing or empty, and
\* whose database did not fail, is answered 400, has uploaded no object and
\* has inserted no row.
C12_CreateWithoutNameRejected ==
    \A p \in Procs :
        (/\ variant \in {"fixed", "list", "order"}
         /\ req[p].pc = "done" /\ req[p].kind = "create"
         /\ ~req[p].over /\ ~req[p].dberr
         /\ req[p].fields.name \in {NULL, <<"">>})
        => req[p].resp = 400 /\ req[p].mine = {} /\ ~req[p].wrote

\* C13: in the "order" and "list" variants the discount every row persists
\* is a number from 0 to 100.
C13_DiscountWithinRange ==
    variant \in {"order", "list"} =>
        \A id \in DOMAIN rows :
            /\ rows[id].discount # NULL
            /\ rows[id].discount[1] >= 0
            /\ rows[id].discount[1] <= 100

\* C14: in the "fixed", "list" and "order" variants, after a successful
\* update of an existing product, name, description and price each hold the value the request supplied (zero and the empty
\* string included) or, when the request supplied none, the value the row
\* held before; so does discount, for a supplied discount from 0 to 100.
C14_UpdateKeepsAbsentFields ==
    \A p \in Procs :
        (/\ variant \in {"fixed", "list", "order"}
         /\ Done(p, "update", 200) /\ req[p].wrote
         /\ req[p].id \in DOMAIN rows)
        => LET f   == req[p].fields
               was == req[p].before[req[p].id]
               now == rows[req[p].id]
           IN /\ \A c \in {"name", "description", "price"} :
                    now[c] = IF f[c] = NULL THEN was[c] ELSE f[c]
              /\ f.discount = NULL => now.discount = was.discount
              /\ (/\ f.discount # NULL
                  /\ f.discount[1] >= 0 /\ f.discount[1] <= 100)
                 => now.discount = f.discount

====
